---- MODULE Spec2Model ----
(***************************************************************************)
(* Model of src/src/datepicker/utils/date-helpers.js (class DateHelpers).  *)
(*                                                                         *)
(* DateHelpers is a set of pure functions over an injected date adapter.   *)
(* A date value is a record of calendar fields (year, 0-based month, date, *)
(* hours, minutes, seconds); the adapter operations are modelled with the  *)
(* semantics of the date-fns adapter the date picker is wired to, without  *)
(* time zones.  Every helper is an operator computed as the source         *)
(* computes it; the state machine draws the arguments of one call in Init  *)
(* and the call's action stores the returned value.                        *)
(***************************************************************************)
EXTENDS Integers, Sequences, FiniteSets, TLC

VARIABLES inDay, inTime, inDayNumber, inConfig, inDates, now, op, ret

vars == <<inDay, inTime, inDayNumber, inConfig, inDates, now, op, ret>>

(***************************************************************************)
(* Values                                                                  *)
(***************************************************************************)
\* undefined: an optional argument or config field that is not given
Absent == [undefined |-> TRUE]

\* the TypeError thrown by Array.prototype.reduce on an empty array without
\* an initial value; it propagates out of every caller
TypeError == [thrown |-> "TypeError"]

\* an Array held in a config field; its elements are the sequence `items`
Array(seq) == [items |-> seq]

MINUTE == 60

HOUR == MINUTE * 60

\* seconds in a day: the 864e5 ms divisor of differenceInCalendarDays, in s
DaySeconds == 24 * HOUR

(***************************************************************************)
(* Calendar arithmetic behind the adapter                                  *)
(***************************************************************************)
IsLeapYear(y) == (y % 4 = 0 /\ y % 100 # 0) \/ y % 400 = 0

\* m is a 0-based month, as getMonth returns it
DaysInMonth(y, m) ==
  IF m = 1 THEN (IF IsLeapYear(y) THEN 29 ELSE 28)
  ELSE IF m \in {3, 5, 8, 10} THEN 30 ELSE 31

\* days of year y before the first day of month m
DaysBeforeMonth(y, m) ==
  <<0, 31, 59, 90, 120, 151, 181, 212, 243, 273, 304, 334>>[m + 1]
    + (IF m > 1 /\ IsLeapYear(y) THEN 1 ELSE 0)

\* days from 1970-01-01 to y-01-01
DaysBeforeYear(y) ==
  365 * (y - 1970) + ((y - 1969) \div 4) - ((y - 1901) \div 100)
    + ((y - 1601) \div 400)

\* days from 1970-01-01 to the calendar day y-m-d
DayIndex(y, m, d) == DaysBeforeYear(y) + DaysBeforeMonth(y, m) + (d - 1)

\* seconds from 1970-01-01T00:00:00 to the instant of a date value
Instant(date) ==
  DayIndex(date.year, date.month, date.date) * DaySeconds
    + date.hours * HOUR + date.minutes * MINUTE + date.seconds

\* the calendar day with a given day index, as <<year, month, date>>
CivilFromDayIndex(n) ==
  LET y == CHOOSE yy \in (1970 + (n \div 366) - 1) .. (1970 + (n \div 365) + 1) :
             DaysBeforeYear(yy) <= n /\ n < DaysBeforeYear(yy + 1)
      r == n - DaysBeforeYear(y)
      m == CHOOSE mm \in 0 .. 11 :
             DaysBeforeMonth(y, mm) <= r
               /\ r < DaysBeforeMonth(y, mm) + DaysInMonth(y, mm)
  IN  <<y, m, r - DaysBeforeMonth(y, m) + 1>>

Min2(a, b) == IF a < b THEN a ELSE b

(***************************************************************************)
(* The adapter (DateIOAdapter), date-fns semantics                         *)
(***************************************************************************)
getYear(date) == date.year

getMonth(date) == date.month

getHours(date) == date.hours

getMinutes(date) == date.minutes

getSeconds(date) == date.seconds

\* getDiff(a, b): the difference of the two instants.  Every date value of
\* the model has 0 milliseconds, so the millisecond difference is 1000 times
\* this number of seconds; the difference is carried in seconds.
getDiff(fromDate, toDate) == Instant(fromDate) - Instant(toDate)

isBefore(date, other) == Instant(date) < Instant(other)

isAfter(date, other) == Instant(date) > Instant(other)

isSameDay(date, other) ==
  /\ date.year = other.year
  /\ date.month = other.month
  /\ date.date = other.date

\* addMonths keeps the day of month, clamped to the length of the target month
addMonths(date, count) ==
  LET total == date.year * 12 + date.month + count
      y == total \div 12
      m == total % 12
  IN  [date EXCEPT !.year = y, !.month = m,
                   !.date = Min2(date.date, DaysInMonth(y, m))]

addDays(date, count) ==
  LET c == CivilFromDayIndex(DayIndex(date.year, date.month, date.date) + count)
  IN  [date EXCEPT !.year = c[1], !.month = c[2], !.date = c[3]]

startOfMonth(date) ==
  [date EXCEPT !.date = 1, !.hours = 0, !.minutes = 0, !.seconds = 0]

\* mergeDateAndTime copies the hours and minutes of `time`; the seconds of
\* the result are those of `date` (sub-minute precision is not merged)
mergeDateAndTime(date, time) ==
  [date EXCEPT !.hours = getHours(time), !.minutes = getMinutes(time)]

setSeconds(date, count) == [date EXCEPT !.seconds = count]

\* setYear is Date.prototype.setFullYear: Feb 29 moved to a common year
\* overflows to Mar 1
setYear(date, y) ==
  IF date.date > DaysInMonth(y, date.month)
  THEN [date EXCEPT !.year = y, !.month = date.month + 1,
                    !.date = date.date - DaysInMonth(y, date.month)]
  ELSE [date EXCEPT !.year = y]

\* setMonth clamps the day of month to the length of the target month
setMonth(date, m) ==
  [date EXCEPT !.month = m,
               !.date = Min2(date.date, DaysInMonth(date.year, m))]

\* formatByString(date, 'd'): the day of month in decimal, no padding
formatByString_d(date) ==
  IF date.date < 10 THEN <<date.date>>
  ELSE <<date.date \div 10, date.date % 10>>

\* Number(string of decimal digits)
RECURSIVE Number(_)
Number(digits) ==
  IF digits = <<>> THEN 0
  ELSE Number(SubSeq(digits, 1, Len(digits) - 1)) * 10 + digits[Len(digits)]

\* adapter.date(): the current date
adapterDate == now

(***************************************************************************)
(* DateHelpers                                                             *)
(***************************************************************************)
differenceInCalendarMonths(fromDate, toDate) ==
  LET yearDiff == getYear(fromDate) - getYear(toDate)
      monthDiff == getMonth(fromDate) - getMonth(toDate)
  IN  yearDiff * 12 + monthDiff

\* msDiff / 864e5, a fraction: the quotient is not rounded
differenceInCalendarDays(fromDate, toDate) ==
  LET msDiff == getDiff(fromDate, toDate)
  IN  [num |-> msDiff, den |-> DaySeconds]

\* comparisons of a fraction with positive denominator against 0
Negative(q) == q.num < 0

Positive(q) == q.num > 0

subMonths(date, months) == addMonths(date, months * (-1))

\* dates.reduce(f) with no initial value: the fold starts at dates[1]
RECURSIVE minFold(_, _, _)
minFold(minDate, dts, i) ==
  IF i > Len(dts) THEN minDate
  ELSE minFold(IF isBefore(dts[i], minDate) THEN dts[i] ELSE minDate, dts, i + 1)

\* min comparing with "not after": among equal dates the later one wins
RECURSIVE minFold_notAfter(_, _, _)
minFold_notAfter(minDate, dts, i) ==
  IF i > Len(dts) THEN minDate
  ELSE minFold_notAfter(IF ~isAfter(dts[i], minDate) THEN dts[i] ELSE minDate,
                        dts, i + 1)

min_notAfter(dts) ==
  IF Len(dts) = 0 THEN TypeError ELSE minFold_notAfter(dts[1], dts, 2)

min(dts) == IF Len(dts) = 0 THEN TypeError ELSE minFold(dts[1], dts, 2)

RECURSIVE maxFold(_, _, _)
maxFold(maxDate, dts, i) ==
  IF i > Len(dts) THEN maxDate
  ELSE maxFold(IF isAfter(dts[i], maxDate) THEN dts[i] ELSE maxDate, dts, i + 1)

max(dts) == IF Len(dts) = 0 THEN TypeError ELSE maxFold(dts[1], dts, 2)

getEffectiveMinDate(cfg) ==
  LET minDate == cfg.minDate
      includeDates == cfg.includeDates
  IN  IF includeDates # Absent /\ minDate # Absent
      THEN LET minDates ==
                 SelectSeq(includeDates.items,
                   LAMBDA includeDate :
                     ~Negative(differenceInCalendarDays(includeDate, minDate)))
           IN  min(minDates)
      ELSE IF includeDates # Absent /\ Len(includeDates.items) # 0
      THEN min(includeDates.items)
      ELSE IF ~(includeDates # Absent /\ Len(includeDates.items) # 0)
                /\ minDate # Absent
      THEN minDate
      ELSE adapterDate

getEffectiveMaxDate(cfg) ==
  LET maxDate == cfg.maxDate
      includeDates == cfg.includeDates
  IN  IF includeDates # Absent /\ maxDate # Absent
      THEN LET maxDates ==
                 SelectSeq(includeDates.items,
                   LAMBDA includeDate :
                     ~Positive(differenceInCalendarDays(includeDate, maxDate)))
           IN  max(maxDates)
      ELSE IF includeDates # Absent
      THEN max(includeDates.items)
      ELSE IF ~(includeDates # Absent) /\ maxDate # Absent
      THEN maxDate
      ELSE adapterDate

\* monthDisabledBefore with the minDate comparison made non-strict
monthDisabledBefore_nonStrict(date, cfg) ==
  LET minDate == cfg.minDate
      includeDates == cfg.includeDates
      previousMonth == subMonths(date, 1)
  IN  \/ /\ minDate # Absent
         /\ differenceInCalendarMonths(minDate, previousMonth) >= 0
      \/ /\ includeDates # Absent
         /\ \A i \in 1 .. Len(includeDates.items) :
              differenceInCalendarMonths(includeDates.items[i], previousMonth) > 0

\* monthDisabledBefore with `some` in place of `every`
monthDisabledBefore_some(date, cfg) ==
  LET minDate == cfg.minDate
      includeDates == cfg.includeDates
      previousMonth == subMonths(date, 1)
  IN  \/ /\ minDate # Absent
         /\ differenceInCalendarMonths(minDate, previousMonth) > 0
      \/ /\ includeDates # Absent
         /\ \E i \in 1 .. Len(includeDates.items) :
              differenceInCalendarMonths(includeDates.items[i], previousMonth) > 0

monthDisabledBefore(date, cfg) ==
  LET minDate == cfg.minDate
      includeDates == cfg.includeDates
      previousMonth == subMonths(date, 1)
  IN  \/ /\ minDate # Absent
         /\ differenceInCalendarMonths(minDate, previousMonth) > 0
      \/ /\ includeDates # Absent
         /\ \A i \in 1 .. Len(includeDates.items) :
              differenceInCalendarMonths(includeDates.items[i], previousMonth) > 0

monthDisabledAfter(date, cfg) ==
  LET maxDate == cfg.maxDate
      includeDates == cfg.includeDates
      nextMonth == addMonths(date, 1)
  IN  \/ /\ maxDate # Absent
         /\ differenceInCalendarMonths(nextMonth, maxDate) > 0
      \/ /\ includeDates # Absent
         /\ \A i \in 1 .. Len(includeDates.items) :
              differenceInCalendarMonths(nextMonth, includeDates.items[i]) > 0

\* setDate without the re-setting of the seconds after the merge
setDate_secondsNotReset(date, n) ==
  LET startOfMonthNoTime == startOfMonth(date)
      startOfMonthHoursAndMinutes == mergeDateAndTime(startOfMonthNoTime, date)
  IN  addDays(startOfMonthHoursAndMinutes, n - 1)

setDate(date, n) ==
  LET startOfMonthNoTime == startOfMonth(date)
      startOfMonthHoursAndMinutes == mergeDateAndTime(startOfMonthNoTime, date)
      startOfMonthWithSeconds ==
        setSeconds(startOfMonthHoursAndMinutes, getSeconds(date))
  IN  addDays(startOfMonthWithSeconds, n - 1)

\* applyDateToTime setting the month before the year
applyDateToTime_monthFirst(time, date) ==
  IF time = Absent THEN date
  ELSE LET yearNumber == getYear(date)
           monthNumber == getMonth(date)
           dayNumber == Number(formatByString_d(date))
           monthDate == setMonth(time, monthNumber)
           yearDate == setYear(monthDate, yearNumber)
       IN  setDate(yearDate, dayNumber)

applyDateToTime(time, date) ==
  IF time = Absent THEN date
  ELSE LET yearNumber == getYear(date)
           monthNumber == getMonth(date)
           dayNumber == Number(formatByString_d(date))
           yearDate == setYear(time, yearNumber)
           monthDate == setMonth(yearDate, monthNumber)
       IN  setDate(monthDate, dayNumber)

isOutOfBounds(date, cfg) ==
  LET minDate == cfg.minDate
      maxDate == cfg.maxDate
  IN  \/ /\ minDate # Absent
         /\ Negative(differenceInCalendarDays(date, minDate))
      \/ /\ maxDate # Absent
         /\ Positive(differenceInCalendarDays(date, maxDate))

\* a call of the caller-supplied filterDate predicate
applyFilter(filterDate, date) ==
  CASE filterDate.accepts = "all" -> TRUE
    [] filterDate.accepts = "none" -> FALSE
    [] filterDate.accepts = "firstHalfOfMonth" -> date.date <= 15

\* isDayDisabled with the negation of the includeDates test lost
isDayDisabled_includeNotNegated(date, cfg) ==
  LET excludeDates == cfg.excludeDates
      includeDates == cfg.includeDates
      filterDate == cfg.filterDate
  IN  \/ isOutOfBounds(date, [minDate |-> cfg.minDate, maxDate |-> cfg.maxDate])
      \/ /\ excludeDates # Absent
         /\ \E i \in 1 .. Len(excludeDates.items) :
              isSameDay(date, excludeDates.items[i])
      \/ /\ includeDates # Absent
         /\ \E i \in 1 .. Len(includeDates.items) :
              isSameDay(date, includeDates.items[i])
      \/ /\ filterDate # Absent
         /\ ~applyFilter(filterDate, date)

\* `a || (b && c) || (d && !e) || (f && !g) || false`: an operand that is
\* undefined or false passes the result on to the next one
isDayDisabled(date, cfg) ==
  LET excludeDates == cfg.excludeDates
      includeDates == cfg.includeDates
      filterDate == cfg.filterDate
  IN  \/ isOutOfBounds(date, [minDate |-> cfg.minDate, maxDate |-> cfg.maxDate])
      \/ /\ excludeDates # Absent
         /\ \E i \in 1 .. Len(excludeDates.items) :
              isSameDay(date, excludeDates.items[i])
      \/ /\ includeDates # Absent
         /\ ~(\E i \in 1 .. Len(includeDates.items) :
                isSameDay(date, includeDates.items[i]))
      \/ /\ filterDate # Absent
         /\ ~applyFilter(filterDate, date)

(***************************************************************************)
(* Arguments of the calls                                                  *)
(***************************************************************************)
MkDate(y, m, d, h, mi, s) ==
  [year |-> y, month |-> m, date |-> d, hours |-> h, minutes |-> mi, seconds |-> s]

\* longest includeDates array drawn
MaxList == 2

\* longest excludeDates array drawn
MaxExclude == 1

\* longest array handed to min and max
MaxDates == 3

\* all sequences over S of length 0 .. n
SeqsUpTo(S, n) == UNION {[1 .. k -> S] : k \in 0 .. n}

ConfigDays ==
  { MkDate(2019, 11, 31, 23, 59, 59), MkDate(2020, 0, 1, 0, 0, 0),
    MkDate(2020, 0, 31, 12, 0, 0), MkDate(2020, 1, 15, 0, 0, 0),
    MkDate(2020, 1, 15, 12, 0, 0), MkDate(2020, 2, 1, 0, 0, 0),
    MkDate(2020, 2, 31, 12, 0, 0) }

ConfigMinDates == { MkDate(2020, 0, 1, 0, 0, 0), MkDate(2020, 1, 15, 12, 0, 0) }

ConfigMaxDates == { MkDate(2020, 1, 15, 0, 0, 0), MkDate(2020, 2, 31, 12, 0, 0) }

ConfigIncludeDates ==
  { MkDate(2019, 11, 31, 23, 59, 59), MkDate(2020, 1, 15, 0, 0, 0),
    MkDate(2020, 2, 31, 12, 0, 0) }

ConfigExcludeDates == { MkDate(2020, 0, 31, 0, 0, 0), MkDate(2020, 1, 15, 12, 0, 0) }

FilterDates == { [accepts |-> "firstHalfOfMonth"], [accepts |-> "none"] }

NowDate == MkDate(2021, 5, 15, 9, 30, 0)

NoConfig ==
  [minDate |-> Absent, maxDate |-> Absent, excludeDates |-> Absent,
   includeDates |-> Absent, filterDate |-> Absent]

Configs ==
  [minDate : ConfigMinDates \cup {Absent},
   maxDate : ConfigMaxDates \cup {Absent},
   excludeDates :
     {Array(l) : l \in SeqsUpTo(ConfigExcludeDates, MaxExclude)} \cup {Absent},
   includeDates :
     {Array(l) : l \in SeqsUpTo(ConfigIncludeDates, MaxList)} \cup {Absent},
   filterDate : FilterDates \cup {Absent}]

(***************************************************************************)
(* Calls on a config: the six operations that take a DateBoundsConfig      *)
(***************************************************************************)
Init ==
  /\ inDay \in ConfigDays
  /\ inConfig \in Configs
  /\ inTime = Absent
  /\ inDayNumber = 1
  /\ inDates = <<>>
  /\ now = NowDate
  /\ op = "idle"
  /\ ret = Absent

inputs == <<inDay, inTime, inDayNumber, inConfig, inDates, now>>

CallGetEffectiveMinDate ==
  /\ op = "idle"
  /\ op' = "getEffectiveMinDate"
  /\ ret' = getEffectiveMinDate(inConfig)
  /\ UNCHANGED inputs

CallGetEffectiveMaxDate ==
  /\ op = "idle"
  /\ op' = "getEffectiveMaxDate"
  /\ ret' = getEffectiveMaxDate(inConfig)
  /\ UNCHANGED inputs

CallMonthDisabledBefore ==
  /\ op = "idle"
  /\ op' = "monthDisabledBefore"
  /\ ret' = monthDisabledBefore(inDay, inConfig)
  /\ UNCHANGED inputs

CallMonthDisabledAfter ==
  /\ op = "idle"
  /\ op' = "monthDisabledAfter"
  /\ ret' = monthDisabledAfter(inDay, inConfig)
  /\ UNCHANGED inputs

CallIsDayDisabled ==
  /\ op = "idle"
  /\ op' = "isDayDisabled"
  /\ ret' = isDayDisabled(inDay, inConfig)
  /\ UNCHANGED inputs

CallIsOutOfBounds ==
  /\ op = "idle"
  /\ op' = "isOutOfBounds"
  /\ ret' = isOutOfBounds(inDay, inConfig)
  /\ UNCHANGED inputs

Next ==
  \/ CallGetEffectiveMinDate
  \/ CallGetEffectiveMaxDate
  \/ CallMonthDisabledBefore
  \/ CallMonthDisabledAfter
  \/ CallIsDayDisabled
  \/ CallIsOutOfBounds

Spec == Init /\ [][Next]_vars

(***************************************************************************)
(* Calls of min and max                                                    *)
(***************************************************************************)
MinMaxDates ==
  { MkDate(2019, 11, 31, 23, 59, 59), MkDate(2020, 1, 15, 0, 0, 0),
    MkDate(2020, 1, 15, 12, 0, 0), MkDate(2020, 2, 31, 12, 0, 0) }

\* the i-th element of an array is its own object: `ref` is its identity,
\* which no adapter operation reads
Object(date, i) ==
  [year |-> date.year, month |-> date.month, date |-> date.date,
   hours |-> date.hours, minutes |-> date.minutes, seconds |-> date.seconds,
   ref |-> i]

Objects(seq) == [i \in 1 .. Len(seq) |-> Object(seq[i], i)]

InitMinMax ==
  /\ inDates \in {Objects(l) : l \in SeqsUpTo(MinMaxDates, MaxDates)}
  /\ inDay = NowDate
  /\ inConfig = NoConfig
  /\ inTime = Absent
  /\ inDayNumber = 1
  /\ now = NowDate
  /\ op = "idle"
  /\ ret = Absent

CallMin ==
  /\ op = "idle"
  /\ op' = "min"
  /\ ret' = min(inDates)
  /\ UNCHANGED inputs

CallMax ==
  /\ op = "idle"
  /\ op' = "max"
  /\ ret' = max(inDates)
  /\ UNCHANGED inputs

NextMinMax == CallMin \/ CallMax

SpecMinMax == InitMinMax /\ [][NextMinMax]_vars

(***************************************************************************)
(* Calls of setDate                                                        *)
(***************************************************************************)
Years == {2019, 2020}

\* every calendar day of Years, at midnight and at 13:45:59
CalendarDays ==
  { c \in Years \X (0 .. 11) \X (1 .. 31) : c[3] <= DaysInMonth(c[1], c[2]) }

SetDateDays ==
  { MkDate(c[1], c[2], c[3], t[1], t[2], t[3]) :
      c \in CalendarDays, t \in {<<0, 0, 0>>, <<13, 45, 59>>} }

InitSetDate ==
  /\ inDay \in SetDateDays
  /\ inDayNumber \in 1 .. 31
  /\ inConfig = NoConfig
  /\ inTime = Absent
  /\ inDates = <<>>
  /\ now = NowDate
  /\ op = "idle"
  /\ ret = Absent

CallSetDate ==
  /\ op = "idle"
  /\ op' = "setDate"
  /\ ret' = setDate(inDay, inDayNumber)
  /\ UNCHANGED inputs

NextSetDate == CallSetDate

SpecSetDate == InitSetDate /\ [][NextSetDate]_vars

(***************************************************************************)
(* Calls of applyDateToTime                                                *)
(***************************************************************************)
\* the first and the last days of every month of Years, at two times of day
TimeValues ==
  { d \in SetDateDays : d.date \in {1, 28, 29, 30, 31} }

\* days early, in the middle and late in every month of Years, at 08:05:07
ApplyDays ==
  { MkDate(d.year, d.month, d.date, 8, 5, 7) :
      d \in {e \in SetDateDays : e.date \in {1, 10, 28, 29, 30, 31}} }

InitApply ==
  /\ inTime \in TimeValues \cup {Absent}
  /\ inDay \in ApplyDays
  /\ inDayNumber = 1
  /\ inConfig = NoConfig
  /\ inDates = <<>>
  /\ now = NowDate
  /\ op = "idle"
  /\ ret = Absent

CallApplyDateToTime ==
  /\ op = "idle"
  /\ op' = "applyDateToTime"
  /\ ret' = applyDateToTime(inTime, inDay)
  /\ UNCHANGED inputs

NextApply == CallApplyDateToTime

SpecApply == InitApply /\ [][NextApply]_vars

(***************************************************************************)
(* Vocabulary of the properties                                            *)
(***************************************************************************)
Items(array) == {array.items[i] : i \in 1 .. Len(array.items)}

\* the calendar day of a date value, as one number
CalendarDay(date) == DayIndex(date.year, date.month, date.date)

\* the calendar month of a date value, as one number
CalendarMonth(date) == date.year * 12 + date.month

SameCalendarDay(a, b) == CalendarDay(a) = CalendarDay(b)

\* includeDates and excludeDates, when present, are non-empty
WellFormed(cfg) ==
  /\ cfg.includeDates # Absent => Len(cfg.includeDates.items) > 0
  /\ cfg.excludeDates # Absent => Len(cfg.excludeDates.items) > 0

Bounds(cfg) == [minDate |-> cfg.minDate, maxDate |-> cfg.maxDate]

(***************************************************************************)
(* C1                                                                      *)
(***************************************************************************)
C1_Excluded(date, cfg) ==
  cfg.excludeDates # Absent
    /\ \E e \in Items(cfg.excludeDates) : SameCalendarDay(e, date)

C1_NotIncluded(date, cfg) ==
  cfg.includeDates # Absent
    /\ \A e \in Items(cfg.includeDates) : ~SameCalendarDay(e, date)

C1_Rejected(date, cfg) ==
  cfg.filterDate # Absent /\ ~applyFilter(cfg.filterDate, date)

\* C1: isDayDisabled(day, config) is true exactly when day is out of bounds
\* (isOutOfBounds on minDate/maxDate), or excludeDates is given and holds the
\* same calendar day, or includeDates is given and holds no same calendar day,
\* or filterDate is given and rejects day; with only excludeDates = [day] it
\* is true and with only includeDates = [day] it is false.
C1_IsDayDisabledExact ==
  op = "isDayDisabled" =>
    /\ ret = ( \/ isOutOfBounds(inDay, Bounds(inConfig))
               \/ C1_Excluded(inDay, inConfig)
               \/ C1_NotIncluded(inDay, inConfig)
               \/ C1_Rejected(inDay, inConfig) )
    /\ isDayDisabled(inDay, [NoConfig EXCEPT !.excludeDates = Array(<<inDay>>)])
    /\ ~isDayDisabled(inDay, [NoConfig EXCEPT !.includeDates = Array(<<inDay>>)])

\* a day inside the bounds, included and accepted by the filter, disabled
\* only because excludeDates holds another time of the same calendar day
C1_Witness ==
  /\ op = "isDayDisabled"
  /\ ret = TRUE
  /\ inConfig.minDate # Absent
  /\ inConfig.maxDate # Absent
  /\ ~isOutOfBounds(inDay, Bounds(inConfig))
  /\ C1_Excluded(inDay, inConfig)
  /\ inDay \notin Items(inConfig.excludeDates)
  /\ inConfig.includeDates # Absent
  /\ ~C1_NotIncluded(inDay, inConfig)
  /\ inConfig.filterDate # Absent
  /\ ~C1_Rejected(inDay, inConfig)

(***************************************************************************)
(* C2                                                                      *)
(***************************************************************************)
\* C2: isOutOfBounds works on calendar days with inclusive bounds: it is true
\* exactly when day's calendar day is strictly before minDate's or strictly
\* after maxDate's, whatever the times of day.
C2_CalendarDayBounds ==
  op = "isOutOfBounds" =>
    ret = ( \/ inConfig.minDate # Absent
                 /\ CalendarDay(inDay) < CalendarDay(inConfig.minDate)
            \/ inConfig.maxDate # Absent
                 /\ CalendarDay(inDay) > CalendarDay(inConfig.maxDate) )

(***************************************************************************)
(* C3                                                                      *)
(***************************************************************************)
\* the include-dates that are on or after minDate
C3_OnOrAfter(cfg) ==
  {e \in Items(cfg.includeDates) : Instant(e) >= Instant(cfg.minDate)}

\* value is a least element of the set of dates S
IsMinimumOf(value, S) ==
  value \in S /\ \A e \in S : Instant(value) <= Instant(e)

IsMaximumOf(value, S) ==
  value \in S /\ \A e \in S : Instant(value) >= Instant(e)

\* C3: getEffectiveMinDate returns the minimum of the include-dates on or
\* after minDate when both are given, the minimum of includeDates when only
\* they are given, minDate when only it is given, and the current date when
\* neither is given (configs with a non-empty includeDates, when present).
C3_EffectiveMinDateCases ==
  (op = "getEffectiveMinDate" /\ WellFormed(inConfig)) =>
    IF inConfig.includeDates # Absent /\ inConfig.minDate # Absent
    THEN IsMinimumOf(ret, C3_OnOrAfter(inConfig))
    ELSE IF inConfig.includeDates # Absent
    THEN IsMinimumOf(ret, Items(inConfig.includeDates))
    ELSE IF inConfig.minDate # Absent
    THEN ret = inConfig.minDate
    ELSE ret = now

(***************************************************************************)
(* C4                                                                      *)
(***************************************************************************)
C4_OnOrBefore(cfg) ==
  {e \in Items(cfg.includeDates) : Instant(e) <= Instant(cfg.maxDate)}

\* no include-date is supplied: includeDates is absent or empty
NoIncludeDate(cfg) ==
  cfg.includeDates = Absent \/ Len(cfg.includeDates.items) = 0

\* C4: getEffectiveMaxDate mirrors getEffectiveMinDate: the maximum of the
\* include-dates on or before maxDate when both are given, the maximum of
\* includeDates when only they are given, maxDate when only it is given, and
\* the current date when neither a maxDate nor any include-date is supplied
\* (includeDates absent or empty), as getEffectiveMinDate does.
C4_EffectiveMaxDateMirror ==
  op = "getEffectiveMaxDate" =>
    IF inConfig.maxDate = Absent /\ NoIncludeDate(inConfig)
    THEN ret = now
    ELSE IF inConfig.maxDate = Absent
    THEN IsMaximumOf(ret, Items(inConfig.includeDates))
    ELSE IF inConfig.includeDates = Absent
    THEN ret = inConfig.maxDate
    ELSE IsMaximumOf(ret, C4_OnOrBefore(inConfig))

(***************************************************************************)
(* C5                                                                      *)
(***************************************************************************)
\* C5: monthDisabledBefore(day, {minDate, includeDates}) is true exactly when
\* minDate is given and its calendar month is strictly after the month
\* preceding day, or includeDates is given and every include-date's calendar
\* month is strictly after the month preceding day; for day 2020-03-01 and
\* minDate 2020-02-15 without includeDates it is false.
C5_MonthDisabledBeforeExact ==
  op = "monthDisabledBefore" =>
    ret = ( \/ inConfig.minDate # Absent
                 /\ CalendarMonth(inConfig.minDate) > CalendarMonth(inDay) - 1
            \/ inConfig.includeDates # Absent
                 /\ \A e \in Items(inConfig.includeDates) :
                      CalendarMonth(e) > CalendarMonth(inDay) - 1 )

\* the worked example: 2020-03-01 against minDate 2020-02-15, difference 0
C5_Witness ==
  /\ op = "monthDisabledBefore"
  /\ inDay = MkDate(2020, 2, 1, 0, 0, 0)
  /\ inConfig.minDate = MkDate(2020, 1, 15, 12, 0, 0)
  /\ inConfig.includeDates = Absent
  /\ differenceInCalendarMonths(inConfig.minDate, subMonths(inDay, 1)) = 0
  /\ ret = FALSE

(***************************************************************************)
(* C8                                                                      *)
(***************************************************************************)
\* C8: on a config whose includeDates and excludeDates, when present, are
\* non-empty, each of the six operations on a config returns a value and never
\* reaches the reduction of an empty sequence.
C8_TotalOnWellFormed ==
  WellFormed(inConfig) =>
    /\ op \in {"getEffectiveMinDate", "getEffectiveMaxDate"} => ret # TypeError
    /\ op \in {"monthDisabledBefore", "monthDisabledAfter", "isDayDisabled",
               "isOutOfBounds"} => ret \in BOOLEAN

(***************************************************************************)
(* C10                                                                     *)
(***************************************************************************)
\* the date values of the calendar month preceding `date`, at the first and
\* the last second of each day
DatesOfPrecedingMonth(date) ==
  LET total == CalendarMonth(date) - 1
      y == total \div 12
      m == total % 12
  IN  { MkDate(y, m, d, t[1], t[2], t[3]) :
          d \in 1 .. DaysInMonth(y, m),
          t \in {<<0, 0, 0>>, <<23, 59, 59>>} }

OnlyMinAndInclude(cfg) ==
  [NoConfig EXCEPT !.minDate = cfg.minDate, !.includeDates = cfg.includeDates]

\* C10: when monthDisabledBefore(day, config) is true, isDayDisabled(x, config)
\* is true for every date x of the calendar month preceding day, config being
\* the {minDate, includeDates} that monthDisabledBefore reads.
C10_DisabledMonthHasNoSelectableDay ==
  (op = "monthDisabledBefore" /\ ret = TRUE) =>
    \A x \in DatesOfPrecedingMonth(inDay) :
      isDayDisabled(x, OnlyMinAndInclude(inConfig))

\* a disabled previous month where minDate alone disables it and include-dates
\* exist that lie in that month
C10_Witness ==
  /\ op = "monthDisabledBefore"
  /\ ret = TRUE
  /\ inConfig.minDate # Absent
  /\ inConfig.includeDates # Absent
  /\ \E e \in Items(inConfig.includeDates) :
       CalendarMonth(e) = CalendarMonth(inDay) - 1
  /\ inConfig.excludeDates = Absent
  /\ inConfig.filterDate = Absent
  /\ inConfig.maxDate = Absent

(***************************************************************************)
(* C6                                                                      *)
(***************************************************************************)
\* value has day-of-month n and the year, month and time of day of `date`
C6_SameMonthAndTime(value, date, n) ==
  /\ value.date = n
  /\ value.year = date.year
  /\ value.month = date.month
  /\ value.hours = date.hours
  /\ value.minutes = date.minutes
  /\ value.seconds = date.seconds

\* C6 as stated: for every date and every day number n in 1 .. 31,
\* setDate(date, n) has day-of-month n and the year, month, hours, minutes
\* and seconds of date.
C6_SetDateAnyDayNumber ==
  op = "setDate" => C6_SameMonthAndTime(ret, inDay, inDayNumber)

\* C6 amended: for every date and every day number n from 1 to the number of
\* days of date's month, setDate(date, n) has day-of-month n and the year,
\* month, hours, minutes and seconds of date.
C6_SetDateWithinMonth ==
  (op = "setDate" /\ inDayNumber <= DaysInMonth(inDay.year, inDay.month)) =>
    C6_SameMonthAndTime(ret, inDay, inDayNumber)

\* the last day of a leap February, set from another day with non-zero seconds
C6_Witness ==
  /\ op = "setDate"
  /\ inDay.year = 2020
  /\ inDay.month = 1
  /\ inDay.date = 10
  /\ inDay.seconds = 59
  /\ inDayNumber = 29
  /\ ret = MkDate(2020, 1, 29, 13, 45, 59)

(***************************************************************************)
(* C7                                                                      *)
(***************************************************************************)
\* C7: applyDateToTime(time, date) is date itself when time is absent, and
\* otherwise has the year, month and day-of-month of date and the hours,
\* minutes and seconds of time, also when time's day-of-month does not exist
\* in date's month and year.
C7_ApplyDateToTime ==
  op = "applyDateToTime" =>
    IF inTime = Absent
    THEN ret = inDay
    ELSE ret = MkDate(inDay.year, inDay.month, inDay.date,
                      inTime.hours, inTime.minutes, inTime.seconds)

\* a time on Feb 29 of a leap year applied to a February day of a common year
C7_Witness ==
  /\ op = "applyDateToTime"
  /\ inTime = MkDate(2020, 1, 29, 13, 45, 59)
  /\ inDay = MkDate(2019, 1, 10, 8, 5, 7)
  /\ ret = MkDate(2019, 1, 10, 13, 45, 59)

(***************************************************************************)
(* C9                                                                      *)
(***************************************************************************)
\* the lowest index of an element that no element of dts is before
C9_LeftmostEarliest(dts) ==
  CHOOSE i \in 1 .. Len(dts) :
    /\ \A j \in 1 .. Len(dts) : Instant(dts[j]) >= Instant(dts[i])
    /\ \A j \in 1 .. (i - 1) : Instant(dts[j]) > Instant(dts[i])

\* the lowest index of an element that no element of dts is after
C9_LeftmostLatest(dts) ==
  CHOOSE i \in 1 .. Len(dts) :
    /\ \A j \in 1 .. Len(dts) : Instant(dts[j]) <= Instant(dts[i])
    /\ \A j \in 1 .. (i - 1) : Instant(dts[j]) < Instant(dts[i])

\* C9: on a non-empty sequence min returns the element at the lowest index
\* among those no element is before, and max the element at the lowest index
\* among those no element is after.
C9_MinMaxLeftmost ==
  Len(inDates) > 0 =>
    /\ op = "min" => ret = inDates[C9_LeftmostEarliest(inDates)]
    /\ op = "max" => ret = inDates[C9_LeftmostLatest(inDates)]

\* the earliest instant occurs twice, after a later one: min returns the
\* first of the two equal objects
C9_Witness ==
  /\ op = "min"
  /\ Len(inDates) = 3
  /\ Instant(inDates[1]) > Instant(inDates[2])
  /\ Instant(inDates[2]) = Instant(inDates[3])
  /\ ret.ref = 2

====
